---- MODULE Spec2Model ----
(***************************************************************************)
(* Model of src/main.rs: a command-line client that reads chain state,     *)
(* derives an EIP-1559 fee plan, builds and signs one transaction, submits *)
(* it either by eth_sendRawTransaction or by eth_sendBundle, and watches   *)
(* the returned handle for at most 20 seconds.                             *)
(*                                                                         *)
(* Fee amounts are u128 values in wei.  They exceed the range of TLC's     *)
(* integers, so a fee amount is a little-endian sequence of NumLimbs limbs *)
(* in base LimbBase, and the arithmetic of main is carried out limb by     *)
(* limb with the width of the Rust type kept explicit.                     *)
(***************************************************************************)
EXTENDS Integers, Sequences, FiniteSets, TLC

\* Option<T>: None is the empty sequence, Some(x) the one-element sequence
None == <<>>
Some(x) == <<x>>
Val(o) == o[1]

\* ------------------------------------------------------------------------
\* Bounds of the model
\* ------------------------------------------------------------------------
MaxNonce == 1          \* nonces returned by eth_getTransactionCount: 0..MaxNonce
MaxChainId == 1        \* chain ids returned by eth_chainId: 1..MaxChainId
MaxBalance == 1        \* balances returned by eth_getBalance: 0..MaxBalance
MaxDelta == 2          \* base fees are taken at anchor + 0..MaxDelta
NumForeignHashes == 1  \* hashes a remote may return besides that of the envelope
TickSecs == 5          \* seconds of waiting that one step of the watch stands for

\* ------------------------------------------------------------------------
\* Unsigned wide integers (u64 / u128) as limb sequences
\* ------------------------------------------------------------------------
LimbBase == 100000000
NumLimbs == 5

Limbs == 1..NumLimbs

Zero == [i \in Limbs |-> 0]

\* the value of a small natural number (< LimbBase * LimbBase) as limbs
Small(n) == [i \in Limbs |-> IF i = 1 THEN n % LimbBase
                             ELSE IF i = 2 THEN n \div LimbBase ELSE 0]

\* carry into limb i of a + b
RECURSIVE CarryIn(_, _, _)
CarryIn(a, b, i) ==
    IF i = 1 THEN 0 ELSE (a[i-1] + b[i-1] + CarryIn(a, b, i-1)) \div LimbBase

\* exact sum (no wrap: NumLimbs limbs hold every sum the model forms)
Add(a, b) == [i \in Limbs |-> (a[i] + b[i] + CarryIn(a, b, i)) % LimbBase]

\* borrow into limb i of a - b
RECURSIVE BorrowIn(_, _, _)
BorrowIn(a, b, i) ==
    IF i = 1 THEN 0
    ELSE IF a[i-1] - b[i-1] - BorrowIn(a, b, i-1) < 0 THEN 1 ELSE 0

\* exact difference, for a >= b
Sub(a, b) ==
    [i \in Limbs |-> (a[i] - b[i] - BorrowIn(a, b, i) + LimbBase) % LimbBase]

\* a < b, comparing from the most significant limb down
RECURSIVE LessFrom(_, _, _)
LessFrom(a, b, i) ==
    IF i = 0 THEN FALSE
    ELSE IF a[i] # b[i] THEN a[i] < b[i]
    ELSE LessFrom(a, b, i-1)

Less(a, b) == LessFrom(a, b, NumLimbs)
Leq(a, b) == ~Less(b, a)

\* remainder carried into limb i by the long division of a by d (d small)
RECURSIVE RemInto(_, _, _)
RemInto(a, d, i) ==
    IF i = NumLimbs THEN 0
    ELSE (RemInto(a, d, i+1) * LimbBase + a[i+1]) % d

\* floor(a / d) for a small divisor d, as Rust's integer division
Div(a, d) == [i \in Limbs |-> (RemInto(a, d, i) * LimbBase + a[i]) \div d]

\* carry into limb i of a * m (m small)
RECURSIVE MulCarry(_, _, _)
MulCarry(a, m, i) ==
    IF i = 1 THEN 0 ELSE (a[i-1] * m + MulCarry(a, m, i-1)) \div LimbBase

\* a * m for a small multiplier m (used only to state properties)
Mul(a, m) == [i \in Limbs |-> (a[i] * m + MulCarry(a, m, i)) % LimbBase]

TwoPow64 == <<9551616, 67440737, 1844, 0, 0>>
TwoPow128 == <<68211456, 46074317, 46346337, 66920938, 3402823>>
U64Max == Sub(TwoPow64, Small(1))

\* Ord::max on u128
Max(a, b) == IF Less(a, b) THEN b ELSE a

\* reduction of an exact sum to a machine width (one wrap suffices per add)
Wrap(s, modulus) == IF Leq(modulus, s) THEN Sub(s, modulus) ELSE s

AddU64(a, b) == Wrap(Add(a, b), TwoPow64)

\* u128 + u128 as the machine computes it
AddU128(a, b) == Wrap(Add(a, b), TwoPow128)

\* the cast (as u128) of a u64: the value is kept
AsU128(x) == x


\* ------------------------------------------------------------------------
\* Inputs and remote values
\* ------------------------------------------------------------------------
DefaultKey == "0xac0974bec39a17e36ba4a6b4d238ff944bacb478cbed5efcae784d7bf4f2ff80"
DefaultRpcUrl == "http://localhost:8545"
UniExperimentalUrl ==
    "http://experi-Proxy-cDzRHZCY6czr-74615020.us-east-2.elb.amazonaws.com"
UniSepoliaUrl == "https://sepolia.unichain.org"

\* values of --private-key and --rpc-url tried by the model
KeyInputs == {DefaultKey, "0xzz"}
UrlInputs == {"local", "uni-sepolia", "uni-experimental", DefaultRpcUrl}

\* str::parse::<PrivateKeySigner>: Ok exactly on a well-formed secret key
KeyParses(k) == k \in {DefaultKey}

\* str::parse::<Url>: Ok exactly on an absolute URL (scheme and host);
\* a bare word such as "local" is a relative URL without a base
UrlParses(u) == u \in {DefaultRpcUrl, UniExperimentalUrl, UniSepoliaUrl}

\* PrivateKeySigner::address
address(k) == <<"address", k>>

\* keccak256, as an injective symbolic hash
Keccak(x) == <<"keccak256", x>>

\* base fees the latest block header may carry (all u64)
GWei == <<0, 10, 0, 0, 0>>
TwoGwei == <<0, 20, 0, 0, 0>>
FiftyGwei == <<0, 500, 0, 0, 0>>
NearThreshold == <<8, 200, 0, 0, 0>>
LowAnchors == {Zero, GWei, NearThreshold, FiftyGwei}
BaseFees ==
    {Add(a, Small(d)) : a \in LowAnchors, d \in 0..MaxDelta}
      \cup {Sub(U64Max, Small(d)) : d \in 0..MaxDelta}

Nonces == 0..MaxNonce
ChainIds == 1..MaxChainId
Balances == 0..MaxBalance

\* a JSON-RPC round trip: an error, or a value of the expected type
Responses(vals) ==
    {[ok |-> FALSE, val |-> None]} \cup {[ok |-> TRUE, val |-> Some(v)] : v \in vals}

\* eth_getBlockByNumber: error, null, or a block whose header may lack
\* baseFeePerGas
BlockResponses ==
    Responses({None} \cup {Some([base_fee_per_gas |-> b]) :
                                b \in {None} \cup {Some(f) : f \in BaseFees}})

\* ------------------------------------------------------------------------
\* Pure steps of main
\* ------------------------------------------------------------------------
parse_rpc_url(input) ==
    CASE input = "uni-experimental" -> UniExperimentalUrl
      [] input = "uni-sepolia" -> UniSepoliaUrl
      [] OTHER -> input

\* .map(|block| block.header.base_fee_per_gas.expect("base fee")).unwrap() as u128
BlockBaseFee(block) ==
    IF block = None
    THEN [panic |-> TRUE, val |-> None,
          msg |-> "called Option::unwrap() on a None value"]
    ELSE IF Val(block).base_fee_per_gas = None
    THEN [panic |-> TRUE, val |-> None, msg |-> "base fee"]
    ELSE [panic |-> FALSE, val |-> Some(AsU128(Val(Val(block).base_fee_per_gas))),
          msg |-> ""]

MinPriorityFee == TwoGwei

PriorityFeeMin(base) ==
    IF Less(Div(base, 10), MinPriorityFee) THEN Div(base, 10) ELSE MinPriorityFee

\* (base_fee / 10).max(2_000_000_000)
PriorityFee(base) == Max(Div(base, 10), MinPriorityFee)

\* base_fee + priority_fee + (base_fee / 4), evaluated left to right in u128
MaxFee(base, priority) == AddU128(AddU128(base, priority), Div(base, 4))

IsZeroNever(b) == FALSE

\* U256::is_zero
IsZero(b) == b = 0

GasLimit == 300000
RevertCode == <<96, 0, 96, 0, 253>>
TransferTo == "0xd8dA6BF26964aF9D7eEd9e03E53415D37aA96045"
Create == "Create"

\* TransactionRequest::default()
DefaultRequest ==
    [to |-> None, gas |-> None, chain_id |-> None, nonce |-> None,
     max_priority_fee_per_gas |-> None, max_fee_per_gas |-> None,
     input |-> None, value |-> None]

BuildRequestBoth(cid, n, priority, maxfee, reverts) ==
    [DefaultRequest EXCEPT !.gas = Some(GasLimit), !.chain_id = Some(cid),
                           !.nonce = Some(n),
                           !.max_priority_fee_per_gas = Some(priority),
                           !.max_fee_per_gas = Some(maxfee),
                           !.to = Some(TransferTo),
                           !.input = IF reverts THEN Some(RevertCode) ELSE None]

\* the request after the builder calls and the reverts branch
BuildRequest(cid, n, priority, maxfee, reverts) ==
    LET base == [DefaultRequest EXCEPT !.gas = Some(GasLimit),
                                       !.chain_id = Some(cid),
                                       !.nonce = Some(n),
                                       !.max_priority_fee_per_gas = Some(priority),
                                       !.max_fee_per_gas = Some(maxfee)]
    IN IF reverts
       THEN [base EXCEPT !.input = Some(RevertCode), !.to = Some(Create)]
       ELSE [base EXCEPT !.to = Some(TransferTo)]

\* fields an EIP-1559 request needs before it can be built
Complete(req) ==
    /\ req.to # None /\ req.gas # None /\ req.nonce # None
    /\ req.max_priority_fee_per_gas # None /\ req.max_fee_per_gas # None

\* the unsigned EIP-1559 transaction of a complete request
Unsigned(req) ==
    [chain_id |-> Val(req.chain_id), nonce |-> Val(req.nonce),
     gas_limit |-> Val(req.gas),
     max_fee_per_gas |-> Val(req.max_fee_per_gas),
     max_priority_fee_per_gas |-> Val(req.max_priority_fee_per_gas),
     to |-> Val(req.to),
     value |-> IF req.value = None THEN 0 ELSE Val(req.value),
     input |-> IF req.input = None THEN <<>> ELSE Val(req.input)]

\* tx.build(&wallet): the signed envelope
Sign(key, req) ==
    [tx |-> Unsigned(req), signature |-> <<"sig", key, Keccak(Unsigned(req))>>]

\* Encodable2718::encoded_2718: type byte 2, then the fields and signature
encoded_2718(env) ==
    <<2, env.tx.chain_id, env.tx.nonce, env.tx.max_priority_fee_per_gas,
      env.tx.max_fee_per_gas, env.tx.gas_limit,
      IF env.tx.to = Create THEN "" ELSE env.tx.to,
      env.tx.value, env.tx.input, <<>>, env.signature>>

\* the transaction hash of an envelope
tx_hash(env) == Keccak(encoded_2718(env))

\* Bundle { transactions: vec![tx_encoded.into()], block_number_max: None }
MakeBundle(encoded) == [transactions |-> <<encoded>>, block_number_max |-> None]

SubmitMethodSwapped(bundle) ==
    IF bundle THEN "eth_sendRawTransaction" ELSE "eth_sendBundle"

\* the RPC method the submission branch calls
SubmitMethod(bundle) ==
    IF bundle THEN "eth_sendBundle" ELSE "eth_sendRawTransaction"

\* hashes a remote endpoint may answer a submission with
ForeignHashes == {Keccak(<<"remote", k>>) : k \in 1..NumForeignHashes}
ReturnedHashes(env) == {tx_hash(env)} \cup ForeignHashes

BundleHandleLocal(bundle_result, env) ==
    [hash |-> tx_hash(env), timeout |-> None]

\* PendingTransactionBuilder::new(provider.root().clone(), result.bundle_hash)
BundleHandle(bundle_result, env) ==
    [hash |-> bundle_result.bundle_hash, timeout |-> None]

\* send_raw_transaction wraps the hash the endpoint returned
RawHandle(returned) == [hash |-> returned, timeout |-> None]

WatchTimeoutSecs == 20

WithNoTimeout(p) == [p EXCEPT !.timeout = None]

\* pending_tx.with_timeout(Some(Duration::from_secs(20)))
WithTimeout(p) == [p EXCEPT !.timeout = Some(WatchTimeoutSecs)]

MatchWatchStrict(w) == IF w.kind = "Confirmed" THEN "Ok" ELSE "Err"

\* the match on the result of watch() followed by Ok(()): both arms only print
MatchWatch(w) == "Ok"

\* process exit status of a finished run
ExitCode(res) ==
    CASE res = "Ok" -> 0
      [] res = "Err" -> 1
      [] res = "panic" -> 101


TryIgnore(r) == [continue |-> TRUE, val |-> r.val]

\* the ? operator on the result of an awaited call
Try(r) == [continue |-> r.ok, val |-> r.val]

\* ------------------------------------------------------------------------
\* State
\* ------------------------------------------------------------------------
VARIABLES
    pc,            \* position of main
    argv,          \* the command line as given
    args,          \* Args after clap (rpc_url through parse_rpc_url)
    pk_addr,       \* address of the signer
    provider,      \* the URL the provider is connected to
    nonce, chain_id, base_fee, priority_fee, max_fee, balance,
    tx,            \* the TransactionRequest
    tx_envelope,   \* the signed envelope
    tx_encoded,    \* its 2718 encoding
    pending_tx,    \* the handle: hash and timeout
    elapsed,       \* seconds the watch has been waiting
    watch_result,  \* what watch() returned
    calls,         \* JSON-RPC requests sent, in order
    stdout,        \* lines printed
    result,        \* "running", or how the process ended: Ok, Err, panic
    error          \* the step that ended the run early, with its message

vars == <<pc, argv, args, pk_addr, provider, nonce, chain_id, base_fee,
          priority_fee, max_fee, balance, tx, tx_envelope, tx_encoded,
          pending_tx, elapsed, watch_result, calls, stdout, result, error>>

Init ==
    /\ pc = "parse_args"
    /\ argv = None /\ args = None /\ pk_addr = None /\ provider = None
    /\ nonce = None /\ chain_id = None /\ base_fee = None
    /\ priority_fee = None /\ max_fee = None /\ balance = None
    /\ tx = None /\ tx_envelope = None /\ tx_encoded = None
    /\ pending_tx = None /\ elapsed = 0 /\ watch_result = None
    /\ calls = <<>> /\ stdout = <<>>
    /\ result = "running" /\ error = None

\* main ends early: an Err returned from main, or a panic
Fail(kind, step, msg) ==
    /\ pc' = "done"
    /\ result' = kind
    /\ error' = Some([step |-> step, msg |-> msg])

Continue(next) ==
    /\ pc' = next
    /\ UNCHANGED <<result, error>>

Call(method, params, r) ==
    calls' = Append(calls, [method |-> method, params |-> params,
                            ok |-> r.ok, response |-> r.val])

\* ------------------------------------------------------------------------
\* Steps of main
\* ------------------------------------------------------------------------
\* Args::parse(), with parse_rpc_url as the value parser of --rpc-url
ParseArgs ==
    /\ pc = "parse_args"
    /\ \E k \in KeyInputs, u \in UrlInputs, rv \in BOOLEAN, bd \in BOOLEAN :
          /\ argv' = Some([private_key |-> k, rpc_url |-> u, reverts |-> rv,
                           bundle |-> bd])
          /\ args' = Some([private_key |-> k, rpc_url |-> parse_rpc_url(u),
                           reverts |-> rv, bundle |-> bd])
    /\ Continue("parse_key")
    /\ UNCHANGED <<pk_addr, provider, nonce, chain_id, base_fee, priority_fee,
                   max_fee, balance, tx, tx_envelope, tx_encoded, pending_tx,
                   elapsed, watch_result, calls, stdout>>

\* Val(args).private_key.parse()?, pk_signer.address(), println
ParseKey ==
    /\ pc = "parse_key"
    /\ IF KeyParses(Val(args).private_key)
       THEN /\ pk_addr' = Some(address(Val(args).private_key))
            /\ stdout' = Append(stdout, <<"Address of the signer", Val(pk_addr')>>)
            /\ Continue("parse_url")
       ELSE /\ Fail("Err", "parse_key", "invalid private key")
            /\ UNCHANGED <<pk_addr, stdout>>
    /\ UNCHANGED <<argv, args, provider, nonce, chain_id, base_fee,
                   priority_fee, max_fee, balance, tx, tx_envelope, tx_encoded,
                   pending_tx, elapsed, watch_result, calls>>

\* Val(args).rpc_url.parse()?, ProviderBuilder ... connect_http
ParseUrl ==
    /\ pc = "parse_url"
    /\ IF UrlParses(Val(args).rpc_url)
       THEN /\ provider' = Some(Val(args).rpc_url)
            /\ Continue("get_nonce")
       ELSE /\ Fail("Err", "parse_url", "relative URL without a base")
            /\ UNCHANGED provider
    /\ UNCHANGED <<argv, args, pk_addr, nonce, chain_id, base_fee,
                   priority_fee, max_fee, balance, tx, tx_envelope, tx_encoded,
                   pending_tx, elapsed, watch_result, calls, stdout>>

\* provider.get_transaction_count(pk_addr).await?, println
GetNonce ==
    /\ pc = "get_nonce"
    /\ \E r \in Responses(Nonces) :
          /\ Call("eth_getTransactionCount", Val(pk_addr), r)
          /\ IF Try(r).continue
             THEN /\ nonce' = Try(r).val
                  /\ stdout' = Append(stdout, <<"Nonce", nonce'>>)
                  /\ Continue("get_chain_id")
             ELSE /\ Fail("Err", "get_nonce", "rpc error")
                  /\ UNCHANGED <<nonce, stdout>>
    /\ UNCHANGED <<argv, args, pk_addr, provider, chain_id, base_fee,
                   priority_fee, max_fee, balance, tx, tx_envelope, tx_encoded,
                   pending_tx, elapsed, watch_result>>

\* provider.get_chain_id().await?
GetChainId ==
    /\ pc = "get_chain_id"
    /\ \E r \in Responses(ChainIds) :
          /\ Call("eth_chainId", <<>>, r)
          /\ IF Try(r).continue
             THEN /\ chain_id' = Try(r).val
                  /\ Continue("get_block")
             ELSE /\ Fail("Err", "get_chain_id", "rpc error")
                  /\ UNCHANGED chain_id
    /\ UNCHANGED <<argv, args, pk_addr, provider, nonce, base_fee,
                   priority_fee, max_fee, balance, tx, tx_envelope, tx_encoded,
                   pending_tx, elapsed, watch_result, stdout>>

\* provider.get_block_by_number(Latest).await? .map(..expect..).unwrap() as u128
GetBlock ==
    /\ pc = "get_block"
    /\ \E r \in BlockResponses :
          /\ Call("eth_getBlockByNumber", "latest", r)
          /\ IF ~Try(r).continue
             THEN /\ Fail("Err", "get_block", "rpc error")
                  /\ UNCHANGED base_fee
             ELSE IF BlockBaseFee(Val(Try(r).val)).panic
             THEN /\ Fail("panic", "get_block", BlockBaseFee(Val(Try(r).val)).msg)
                  /\ UNCHANGED base_fee
             ELSE /\ base_fee' = BlockBaseFee(Val(Try(r).val)).val
                  /\ Continue("fees")
    /\ UNCHANGED <<argv, args, pk_addr, provider, nonce, chain_id,
                   priority_fee, max_fee, balance, tx, tx_envelope, tx_encoded,
                   pending_tx, elapsed, watch_result, stdout>>

\* the two fee lines and the println of the flags
ComputeFees ==
    /\ pc = "fees"
    /\ priority_fee' = Some(PriorityFee(Val(base_fee)))
    /\ max_fee' = Some(MaxFee(Val(base_fee), Val(priority_fee')))
    /\ stdout' = Append(stdout, <<"Sending transaction that reverts",
                                  Val(args).reverts, Val(args).bundle>>)
    /\ Continue("get_balance")
    /\ UNCHANGED <<argv, args, pk_addr, provider, nonce, chain_id, base_fee,
                   balance, tx, tx_envelope, tx_encoded, pending_tx, elapsed,
                   watch_result, calls>>

\* provider.get_balance(pk_addr).await?, then the is_zero bail
GetBalance ==
    /\ pc = "get_balance"
    /\ \E r \in Responses(Balances) :
          /\ Call("eth_getBalance", Val(pk_addr), r)
          /\ IF ~Try(r).continue
             THEN /\ Fail("Err", "get_balance", "rpc error")
                  /\ UNCHANGED balance
             ELSE /\ balance' = Try(r).val
                  /\ IF IsZero(Val(balance'))
                     THEN Fail("Err", "balance_check",
                               "Insufficient balance for the transaction. Please fund the account.")
                     ELSE Continue("build_request")
    /\ UNCHANGED <<argv, args, pk_addr, provider, nonce, chain_id, base_fee,
                   priority_fee, max_fee, tx, tx_envelope, tx_encoded,
                   pending_tx, elapsed, watch_result, stdout>>

\* TransactionRequest::default().with_...; set_deploy_code or set_to
BuildTx ==
    /\ pc = "build_request"
    /\ tx' = Some(BuildRequest(Val(chain_id), Val(nonce), Val(priority_fee),
                               Val(max_fee), Val(args).reverts))
    /\ Continue("sign")
    /\ UNCHANGED <<argv, args, pk_addr, provider, nonce, chain_id, base_fee,
                   priority_fee, max_fee, balance, tx_envelope, tx_encoded,
                   pending_tx, elapsed, watch_result, calls, stdout>>

\* tx.build(&wallet).await?, tx_envelope.encoded_2718()
SignTx ==
    /\ pc = "sign"
    /\ \E signer_ok \in BOOLEAN :
          IF Complete(Val(tx)) /\ signer_ok
          THEN /\ tx_envelope' = Some(Sign(Val(args).private_key, Val(tx)))
               /\ tx_encoded' = Some(encoded_2718(Val(tx_envelope')))
               /\ Continue("submit")
          ELSE /\ Fail("Err", "sign", "build or signer error")
               /\ UNCHANGED <<tx_envelope, tx_encoded>>
    /\ UNCHANGED <<argv, args, pk_addr, provider, nonce, chain_id, base_fee,
                   priority_fee, max_fee, balance, tx, pending_tx, elapsed,
                   watch_result, calls, stdout>>

\* the bundle branch: client().request("eth_sendBundle", (bundle,)).await?
SendBundle ==
    /\ pc = "submit"
    /\ SubmitMethod(Val(args).bundle) = "eth_sendBundle"
    /\ \E r \in Responses({[bundle_hash |-> h] :
                                h \in ReturnedHashes(Val(tx_envelope))}) :
          /\ Call("eth_sendBundle", MakeBundle(Val(tx_encoded)), r)
          /\ IF Try(r).continue
             THEN /\ pending_tx' = Some(BundleHandle(Val(Try(r).val), Val(tx_envelope)))
                  /\ Continue("with_timeout")
             ELSE /\ Fail("Err", "submit", "rpc error")
                  /\ UNCHANGED pending_tx
    /\ UNCHANGED <<argv, args, pk_addr, provider, nonce, chain_id, base_fee,
                   priority_fee, max_fee, balance, tx, tx_envelope, tx_encoded,
                   elapsed, watch_result, stdout>>

\* the other branch: provider.send_raw_transaction(&tx_encoded).await?
SendRaw ==
    /\ pc = "submit"
    /\ SubmitMethod(Val(args).bundle) = "eth_sendRawTransaction"
    /\ \E r \in Responses(ReturnedHashes(Val(tx_envelope))) :
          /\ Call("eth_sendRawTransaction", Val(tx_encoded), r)
          /\ IF Try(r).continue
             THEN /\ pending_tx' = Some(RawHandle(Val(Try(r).val)))
                  /\ Continue("with_timeout")
             ELSE /\ Fail("Err", "submit", "rpc error")
                  /\ UNCHANGED pending_tx
    /\ UNCHANGED <<argv, args, pk_addr, provider, nonce, chain_id, base_fee,
                   priority_fee, max_fee, balance, tx, tx_envelope, tx_encoded,
                   elapsed, watch_result, stdout>>

\* with_timeout(Some(20 s)) and the two println before the watch
SetTimeout ==
    /\ pc = "with_timeout"
    /\ pending_tx' = Some(WithTimeout(Val(pending_tx)))
    /\ stdout' = Append(Append(stdout,
                               <<"Sent transaction", Val(pending_tx').hash>>),
                        <<"Waiting for transaction to be mined...">>)
    /\ Continue("watch")
    /\ UNCHANGED <<argv, args, pk_addr, provider, nonce, chain_id, base_fee,
                   priority_fee, max_fee, balance, tx, tx_envelope, tx_encoded,
                   elapsed, watch_result, calls>>

Watched(w) ==
    /\ watch_result' = Some(w)
    /\ Continue("match")
    /\ UNCHANGED <<argv, args, pk_addr, provider, nonce, chain_id, base_fee,
                   priority_fee, max_fee, balance, tx, tx_envelope, tx_encoded,
                   pending_tx, elapsed, calls, stdout>>

\* watch(): time passes with the hash not yet seen
WatchTick ==
    /\ pc = "watch"
    /\ Val(pending_tx).timeout # None
    /\ elapsed < Val(Val(pending_tx).timeout)
    /\ elapsed' = IF elapsed + TickSecs < Val(Val(pending_tx).timeout)
                  THEN elapsed + TickSecs
                  ELSE Val(Val(pending_tx).timeout)
    /\ UNCHANGED <<pc, argv, args, pk_addr, provider, nonce, chain_id,
                   base_fee, priority_fee, max_fee, balance, tx, tx_envelope,
                   tx_encoded, pending_tx, watch_result, calls, stdout, result,
                   error>>

\* watch(): the hash is seen in a block
WatchConfirmed ==
    /\ pc = "watch"
    /\ Watched([kind |-> "Confirmed", hash |-> Some(Val(pending_tx).hash)])

\* watch(): the timeout of the handle elapses
WatchTimedOut ==
    /\ pc = "watch"
    /\ Val(pending_tx).timeout # None
    /\ elapsed >= Val(Val(pending_tx).timeout)
    /\ Watched([kind |-> "TimedOut", hash |-> None])

\* watch(): the remote or the transport reports an error
WatchFailed ==
    /\ pc = "watch"
    /\ Watched([kind |-> "WatchError", hash |-> None])

\* the match arms print, then main returns Ok(())
Report ==
    /\ pc = "match"
    /\ stdout' = Append(stdout,
                        IF Val(watch_result).kind = "Confirmed"
                        THEN <<"Transaction mined", Val(Val(watch_result).hash)>>
                        ELSE <<"Error watching transaction",
                               Val(watch_result).kind>>)
    /\ pc' = "done"
    /\ result' = MatchWatch(Val(watch_result))
    /\ UNCHANGED <<argv, args, pk_addr, provider, nonce, chain_id, base_fee,
                   priority_fee, max_fee, balance, tx, tx_envelope, tx_encoded,
                   pending_tx, elapsed, watch_result, calls, error>>

Next ==
    \/ ParseArgs \/ ParseKey \/ ParseUrl
    \/ GetNonce \/ GetChainId \/ GetBlock \/ ComputeFees \/ GetBalance
    \/ BuildTx \/ SignTx \/ SendBundle \/ SendRaw \/ SetTimeout
    \/ WatchTick \/ WatchConfirmed \/ WatchTimedOut \/ WatchFailed
    \/ Report

Spec == Init /\ [][Next]_vars

\* The watch is driven by a timer and main is one sequential flow, so the
\* watch steps and the final report cannot be postponed forever.
LiveSpec ==
    Spec /\ WF_vars(WatchTick) /\ WF_vars(WatchTimedOut) /\ WF_vars(Report)

TypeOK ==
    /\ pc \in {"parse_args", "parse_key", "parse_url", "get_nonce",
               "get_chain_id", "get_block", "fees", "get_balance",
               "build_request", "sign", "submit", "with_timeout", "watch",
               "match", "done"}
    /\ result \in {"running", "Ok", "Err", "panic"}
    /\ elapsed \in 0..WatchTimeoutSecs


\* ------------------------------------------------------------------------
\* Properties
\* ------------------------------------------------------------------------
SubmitMethods == {"eth_sendBundle", "eth_sendRawTransaction"}
ReadMethods == {"eth_getTransactionCount", "eth_chainId",
                "eth_getBlockByNumber", "eth_getBalance"}

CallsOf(methods) == {i \in DOMAIN calls : calls[i].method \in methods}

NothingBuilt ==
    /\ tx = None /\ tx_envelope = None /\ tx_encoded = None
    /\ pending_tx = None /\ watch_result = None
    /\ CallsOf(SubmitMethods) = {}

\* q = floor(b / d), stated by multiplication: q*d <= b < q*d + d
IsFloorDiv(q, b, d) ==
    /\ Leq(Mul(q, d), b)
    /\ Less(b, Add(Mul(q, d), Small(d)))

\* C1: when the two fee lines have run, priorityFeePerGas is max(floor(baseFee/10),
\* 2_000_000_000) and maxFeePerGas is baseFee + priorityFeePerGas +
\* floor(baseFee/4); 1 gwei gives (2_000_000_000, 3_250_000_000), 50 gwei
\* gives (5_000_000_000, 67_500_000_000), and below the threshold the
\* priority fee is exactly 2_000_000_000.
C1_FeePlan ==
    pc = "get_balance" =>
        LET b == Val(base_fee)
            p == Val(priority_fee)
            m == Val(max_fee)
        IN /\ IF Less(b, <<10, 200, 0, 0, 0>>)
              THEN p = <<0, 20, 0, 0, 0>>
              ELSE IsFloorDiv(p, b, 10) /\ Leq(<<0, 20, 0, 0, 0>>, p)
           /\ Leq(Add(b, p), m)
           /\ IsFloorDiv(Sub(m, Add(b, p)), b, 4)
           /\ b = <<0, 10, 0, 0, 0>> =>
                 p = <<0, 20, 0, 0, 0>> /\ m = <<50000000, 32, 0, 0, 0>>
           /\ b = <<0, 500, 0, 0, 0>> =>
                 p = <<0, 50, 0, 0, 0>> /\ m = <<0, 675, 0, 0, 0>>

C1_Witness ==
    /\ pc = "get_balance"
    /\ base_fee = Some(<<0, 500, 0, 0, 0>>)
    /\ priority_fee = Some(<<0, 50, 0, 0, 0>>)
    /\ max_fee = Some(<<0, 675, 0, 0, 0>>)

\* C2: when the fetched balance is 0 the run has ended with a fatal error
\* (nonzero exit) and no transaction was constructed, signed, submitted or
\* watched, whatever the reverts and bundle flags.
C2_ZeroBalanceAborts ==
    (balance # None /\ Val(balance) = 0) =>
        /\ pc = "done"
        /\ result = "Err"
        /\ ExitCode(result) # 0
        /\ Val(error).step = "balance_check"
        /\ NothingBuilt

C2_Witness ==
    /\ balance = Some(0)
    /\ pc = "done"
    /\ Val(args).reverts /\ Val(args).bundle
    /\ Len(calls) = 4

\* C3: at most one submission call per run and exactly one once building
\* has succeeded and the submit step is passed; it is eth_sendBundle when the
\* bundle flag is set and eth_sendRawTransaction otherwise; a failed
\* submission ends the run as a fatal error with no handle and no watch.
C3_SingleSubmission ==
    /\ Cardinality(CallsOf(SubmitMethods)) <= 1
    /\ \A i \in CallsOf(SubmitMethods) :
          /\ calls[i].method = IF Val(args).bundle THEN "eth_sendBundle"
                               ELSE "eth_sendRawTransaction"
          /\ i = Len(calls)
          /\ ~calls[i].ok =>
                /\ pc = "done" /\ result = "Err"
                /\ Val(error).step = "submit"
                /\ pending_tx = None /\ watch_result = None
    /\ (tx_envelope # None /\ pc # "submit") =>
          Cardinality(CallsOf(SubmitMethods)) = 1
    /\ tx_envelope = None => CallsOf(SubmitMethods) = {}

C3_Witness ==
    /\ pc = "done" /\ result = "Err"
    /\ Val(args).bundle
    /\ Cardinality(CallsOf({"eth_sendBundle"})) = 1
    /\ ~calls[Len(calls)].ok

\* C4: the handle, and the hash printed as sent, is the bundleHash of the
\* relay response when the bundle flag is set (not the hash computed from
\* the envelope) and the hash returned by eth_sendRawTransaction otherwise;
\* the bundle sent holds the encoded envelope alone and no max block number.
C4_HandleKeyedByReturnedHash ==
    pending_tx # None =>
        LET sent == calls[Len(calls)]
            returned == IF Val(args).bundle
                        THEN Val(sent.response).bundle_hash
                        ELSE Val(sent.response)
        IN /\ sent.method = IF Val(args).bundle THEN "eth_sendBundle"
                            ELSE "eth_sendRawTransaction"
           /\ Val(pending_tx).hash = returned
           /\ Val(args).bundle =>
                 /\ sent.params.transactions = <<Val(tx_encoded)>>
                 /\ sent.params.block_number_max = None
           /\ ~Val(args).bundle => sent.params = Val(tx_encoded)
           /\ pc \in {"watch", "match", "done"} =>
                 \E j \in DOMAIN stdout :
                    stdout[j] = <<"Sent transaction", returned>>

C4_Witness ==
    /\ pc = "watch"
    /\ Val(args).bundle
    /\ Val(pending_tx).hash # tx_hash(Val(tx_envelope))
    /\ Val(pending_tx).hash = Val(calls[Len(calls)].response).bundle_hash

PreWatchSteps == {"parse_key", "parse_url", "get_nonce", "get_chain_id",
                  "get_block", "balance_check", "get_balance", "sign", "submit"}

\* C5: after a successful submission every watch outcome is reported and
\* the process exits with code 0; the process exits nonzero exactly when a
\* step before the watch failed.
C5_WatchOutcomesNonFatal ==
    /\ pending_tx # None => result \in {"running", "Ok"}
    /\ pc = "done" =>
          /\ watch_result # None =>
                /\ result = "Ok" /\ ExitCode(result) = 0
                /\ Val(watch_result).kind \in {"Confirmed", "TimedOut", "WatchError"}
                /\ stdout[Len(stdout)][1] =
                      IF Val(watch_result).kind = "Confirmed"
                      THEN "Transaction mined" ELSE "Error watching transaction"
          /\ ExitCode(result) # 0 <=>
                /\ error # None
                /\ Val(error).step \in PreWatchSteps
                /\ watch_result = None
          /\ ExitCode(result) = 0 <=> watch_result # None

C5_Witness ==
    /\ pc = "done"
    /\ watch_result # None /\ Val(watch_result).kind = "WatchError"
    /\ result = "Ok"

\* C6: with reverts set the built transaction is a contract creation whose
\* payload is the 5 bytes 0x60006000fd; otherwise it goes to the fixed
\* address with an empty payload; never a destination together with the
\* revert payload; gas limit 300000, and chain id, nonce and both fees are
\* the values read and derived earlier.
C6_ModeExclusivity ==
    tx_envelope # None =>
        LET t == Val(tx_envelope).tx
        IN /\ IF Val(argv).reverts
              THEN /\ t.to = "Create"
                   /\ t.input = <<96, 0, 96, 0, 253>>
                   /\ Val(tx).to = Some("Create")
              ELSE /\ t.to = "0xd8dA6BF26964aF9D7eEd9e03E53415D37aA96045"
                   /\ t.input = <<>>
                   /\ Val(tx).input = None
           /\ ~(t.to # "Create" /\ t.input = <<96, 0, 96, 0, 253>>)
           /\ t.gas_limit = 300000
           /\ t.value = 0
           /\ Some(t.chain_id) = calls[2].response
           /\ Some(t.nonce) = calls[1].response
           /\ Some(t.max_priority_fee_per_gas) = priority_fee
           /\ Some(t.max_fee_per_gas) = max_fee
           /\ Val(tx_encoded)[1] = 2

C6_Witness ==
    /\ tx_envelope # None
    /\ Val(argv).reverts
    /\ Val(tx_envelope).tx.input = <<96, 0, 96, 0, 253>>
    /\ pc = "submit"

\* a read that did not deliver its value: the call failed, or the block is
\* absent or lacks the base fee
BlockUnusable(c) ==
    /\ c.method = "eth_getBlockByNumber"
    /\ c.ok
    /\ \/ Val(c.response) = None
       \/ Val(Val(c.response)).base_fee_per_gas = None

FailedReads == {i \in CallsOf(ReadMethods) : ~calls[i].ok \/ BlockUnusable(calls[i])}

ReadsInOrderOnce ==
    /\ \A i, j \in CallsOf(ReadMethods) :
          calls[i].method = calls[j].method => i = j
    /\ tx # None =>
          /\ Cardinality(CallsOf(ReadMethods)) = 4
          /\ FailedReads = {}
          /\ nonce # None /\ chain_id # None /\ base_fee # None
          /\ balance # None

\* C7 as stated: building starts only after the four reads succeeded, no
\* read is repeated, and every failed read (the absent block and the missing
\* base fee included) ends the run with an error returned from main and
\* nothing built.
C7_ReadsBeforeBuild_Original ==
    /\ ReadsInOrderOnce
    /\ FailedReads # {} =>
          /\ pc = "done"
          /\ result = "Err"
          /\ NothingBuilt

\* C7 amended: as above, except that the absent block and the missing base
\* fee end the run by a panic (exit 101) and not by an error returned from
\* main; a failed call still ends it by a returned error.
C7_ReadsBeforeBuild ==
    /\ ReadsInOrderOnce
    /\ FailedReads # {} =>
          /\ pc = "done"
          /\ ExitCode(result) # 0
          /\ NothingBuilt
          /\ \A i \in FailedReads :
                /\ i = Len(calls)
                /\ result = IF BlockUnusable(calls[i]) THEN "panic" ELSE "Err"

C7_Witness ==
    /\ pc = "done"
    /\ Len(calls) = 3
    /\ BlockUnusable(calls[3])
    /\ result = "panic"
    /\ Val(error).msg = "base fee"

\* C8: when the two fee lines have run on a u64 base fee, the u128
\* additions did not wrap (the stored maxFeePerGas is the exact sum) and
\* maxFeePerGas >= priorityFeePerGas + baseFee.
C8_NoOverflow ==
    pc = "get_balance" =>
        LET b == Val(base_fee)
            p == Val(priority_fee)
            m == Val(max_fee)
        IN /\ Leq(b, U64Max)
           /\ Less(Add(Add(b, p), Div(b, 4)), TwoPow128)
           /\ m = Add(Add(b, p), Div(b, 4))
           /\ Leq(Add(p, b), m)

C8_Witness ==
    /\ pc = "get_balance"
    /\ base_fee = Some(<<9551615, 67440737, 1844, 0, 0>>)
    /\ Less(TwoPow64, Val(max_fee))

Outcomes == {"Confirmed", "TimedOut", "WatchError"}

\* C9: on both paths the handle carries the 20 second timeout while it is
\* watched, it is watched once, and every run that reaches the watch leaves
\* it with one of Confirmed, TimedOut, WatchError and then terminates.
C9_WatchTerminates ==
    /\ [](pc \in {"watch", "match"} \/ watch_result # None =>
             /\ Val(pending_tx).timeout = Some(20)
             /\ elapsed <= 20)
    /\ [][(pc \in {"match", "done"}) =>
             (pc' # "watch" /\ watch_result' = watch_result)]_vars
    /\ [](pc = "match" => Val(watch_result).kind \in Outcomes)
    /\ (pc = "watch") ~>
          (pc = "done" /\ result = "Ok" /\ watch_result # None)

C9_Witness ==
    /\ pc = "done"
    /\ watch_result # None /\ Val(watch_result).kind = "TimedOut"
    /\ elapsed = 20
    /\ ~Val(args).bundle

FixedEndpoints == {DefaultRpcUrl, UniSepoliaUrl, UniExperimentalUrl}

\* C10: the aliases local, uni-sepolia and uni-experimental each resolve to
\* a fixed endpoint URL and every other --rpc-url value is passed through
\* unchanged.
C10_AliasResolution ==
    args # None =>
        LET given == Val(argv).rpc_url
            resolved == Val(args).rpc_url
        IN IF given \in {"local", "uni-sepolia", "uni-experimental"}
           THEN resolved \in FixedEndpoints /\ resolved # given
           ELSE resolved = given

====
